---- MODULE Spec2Model ----
(***************************************************************************)
(* A model of crates/relayer/src/lib.rs: the relayer that embeds a payload *)
(* in a Taproot commit/reveal pair (write) and scans transactions and      *)
(* blocks for embedded payloads (read_transaction, read).                  *)
(*                                                                         *)
(* Bytes are the integers 0..255, byte strings and scripts are sequences   *)
(* of bytes.  Hashes and key tweaks of the bitcoin library are modelled by *)
(* their preimages (a record of what is hashed), i.e. as collision free.   *)
(* The ledger node answers every RPC either with an error or with a value  *)
(* drawn from a small set.                                                 *)
(***************************************************************************)
EXTENDS Integers, Sequences, FiniteSets, TLC

VARIABLES
    pc,         \* position of the running call
    op,         \* the public function that was called
    arg,        \* its arguments
    dataWithId, \* write: data_with_id
    address,    \* write: the address returned by create_taproot_address
    commitHash, \* write: the Txid returned by commit_tx
    rawCommit,  \* reveal_tx: raw_commit
    revealTx,   \* reveal_tx: tx, as handed to send_raw_transaction
    sighash,    \* reveal_tx: what taproot_signature_hash was asked to hash
    calls,      \* the ledger RPCs made so far by the running call, in order
    ret,        \* the value the call returned (or the panic that ended it)
    block,      \* read: the block the node returned
    ledger,     \* the reveal transaction the node accepted, under its id
    written     \* the payload whose write returned Ok

vars == <<pc, op, arg, dataWithId, address, commitHash, rawCommit, revealTx,
          sighash, calls, ret, block, ledger, written>>

----------------------------------------------------------------------------
(* Bounds of the model *)

MaxLen == 2
MaxSlice == 4
MaxChunk == 3
MaxOutputs == 3
MaxTxId == 2
MaxHeight == 1
MaxBlockTxs == 3
MaxTokens == 2
MaxPushes == 11

----------------------------------------------------------------------------
(* Constants of the program *)

PROTOCOL_ID == <<98, 97, 114, 107>>

OP_0 == 0
OP_IF == 99
OP_ENDIF == 104
OP_CHECKSIG == 172
OP_PUSHNUM_1 == 81
OP_PUSHDATA1 == 76
OP_PUSHDATA2 == 77

ADDR_CHUNK_SIZE == 520
REVEAL_CHUNK_SIZE == 520
COMMIT_AMOUNT == 100000
FUNDING_VALUE == 100000
REVEAL_VALUE == 1000
TX_VERSION == 2
READ_LEAF_VERSION == 0
TAPSCRIPT == 192
ANNEX_PREFIX == 80
TPL_MAX_ENVELOPE == 10
TPL_MAX_KEY == 1

\* priv_key.public_key(secp).inner.serialize() of BOB_PRIVATE_KEY: the 33-byte
\* compressed encoding
BOB_PUBKEY ==
    <<2, 78, 223, 207, 157, 254, 108, 11, 92, 131, 209, 171, 63, 120, 209, 179,
      154, 70, 235, 172, 103, 152, 224, 142, 25, 118, 31, 94, 216, 158, 200,
      60, 16>>

\* internal_pkey.public_key(secp).inner of INTERNAL_PRIVATE_KEY, compressed
INTERNAL_PUBKEY ==
    <<3, 91, 240, 141, 88, 164, 48, 248, 194, 34, 191, 250, 249, 18, 114, 73,
      197, 205, 255, 112, 162, 214, 139, 43, 69, 99, 126, 182, 98, 182, 184,
      142, 181>>

\* PrivateKey::from_wif: both constants are well-formed WIF strings (version
\* byte 0x80, valid base58check checksum), so parsing succeeds
FromWif(key) == [ok |-> TRUE, pubkey |-> key]

\* XOnlyPublicKey::from(inner): the x coordinate, without the parity byte
XOnly(pubkey) == SubSeq(pubkey, 2, Len(pubkey))

----------------------------------------------------------------------------
(* Values returned by the public functions *)

Ok(v) == [kind |-> "Ok", val |-> v]
Err(e) == [kind |-> "Err", val |-> e]
Some(v) == [kind |-> "Some", val |-> v]
None == [kind |-> "None", val |-> <<>>]
Panic(msg) == [kind |-> "panic", val |-> msg]
Pending == [kind |-> "pending", val |-> <<>>]

----------------------------------------------------------------------------
(* chunk_slice *)

Min(a, b) == IF a < b THEN a ELSE b

\* the while loop of chunk_slice from offset i (0-based) on
RECURSIVE ChunkLoop(_, _, _)
ChunkLoopDropsTail(slice, chunk_size, i) ==
    IF i + chunk_size <= Len(slice)
    THEN <<SubSeq(slice, i + 1, i + chunk_size)>>
             \o ChunkLoop(slice, chunk_size, i + chunk_size)
    ELSE <<>>

ChunkLoop(slice, chunk_size, i) ==
    IF i < Len(slice)
    THEN LET end == Min(i + chunk_size, Len(slice))
         IN  <<SubSeq(slice, i + 1, end)>> \o ChunkLoop(slice, chunk_size, end)
    ELSE <<>>

chunk_slice(slice, chunk_size) == ChunkLoop(slice, chunk_size, 0)

----------------------------------------------------------------------------
(* Script building (bitcoin::script::Builder) *)

\* Builder::push_slice: the push opcode for the length, then the data
PushSlice(data) ==
    LET n == Len(data)
    IN  IF n < OP_PUSHDATA1 THEN <<n>> \o data
        ELSE IF n < 256 THEN <<OP_PUSHDATA1, n>> \o data
        ELSE <<OP_PUSHDATA2, n % 256, n \div 256>> \o data

RECURSIVE PushAll(_)
PushAll(chunks) ==
    IF chunks = <<>> THEN <<>>
    ELSE PushSlice(Head(chunks)) \o PushAll(Tail(chunks))

\* the embedding script as create_taproot_address builds it
AddrScript(embedded_data) ==
    <<OP_0, OP_IF>>
        \o PushAll(chunk_slice(embedded_data, ADDR_CHUNK_SIZE))
        \o <<OP_ENDIF>> \o PushSlice(BOB_PUBKEY) \o <<OP_CHECKSIG>>

\* the embedding script as reveal_tx builds it
RevealScriptSmallerChunks(embedded_data) ==
    <<OP_0, OP_IF>>
        \o PushAll(chunk_slice(embedded_data, REVEAL_CHUNK_SIZE - 1))
        \o <<OP_ENDIF>> \o PushSlice(BOB_PUBKEY) \o <<OP_CHECKSIG>>

RevealScript(embedded_data) ==
    <<OP_0, OP_IF>>
        \o PushAll(chunk_slice(embedded_data, REVEAL_CHUNK_SIZE))
        \o <<OP_ENDIF>> \o PushSlice(BOB_PUBKEY) \o <<OP_CHECKSIG>>

----------------------------------------------------------------------------
(* Taproot (bitcoin::taproot) *)

\* the tagged hash of a leaf, modelled by what it hashes
TapLeafHash(script, ver) == [leaf_script |-> script, leaf_ver |-> ver]

\* the internal key tweaked by the merkle root, modelled by what it commits to
TapTweak(internal_key, merkle_root) ==
    [internal |-> internal_key, root |-> merkle_root]

\* TaprootBuilder::new().add_leaf(0, script): one TapScript leaf at depth 0
AddLeaf(depth, script) == <<[depth |-> depth, script |-> script, ver |-> TAPSCRIPT]>>

\* TaprootBuilder::finalize for a builder holding a single leaf at depth 0
Finalize(builder, internal_key) ==
    LET leaf == builder[1]
        root == TapLeafHash(leaf.script, leaf.ver)
    IN  [internal_key |-> internal_key,
         merkle_root |-> root,
         output_key |-> TapTweak(internal_key, root),
         script_map |-> {<<leaf.script, leaf.ver>>}]

\* TaprootSpendInfo::control_block
ControlBlock(tap_tree, script, ver) ==
    IF <<script, ver>> \in tap_tree.script_map
    THEN Some([leaf_version |-> ver, internal_key |-> tap_tree.internal_key,
               merkle_branch |-> <<>>])
    ELSE None

\* Address::p2tr_tweaked(output_key, Network::Bitcoin).to_string()
P2trAddress(output_key) == [hrp |-> "bc", witness_version |-> 1, program |-> output_key]

\* Address::from_str(addr) followed by address_type()
AddressType(addr) ==
    IF addr.hrp = "bc" /\ addr.witness_version = 1 THEN "P2tr" ELSE "other"

\* pay_to_taproot_script: OP_PUSHNUM_1 and a push of the key
pay_to_taproot_script(taproot_key) == [op |-> OP_PUSHNUM_1, push |-> taproot_key]

\* the tap tree create_taproot_address builds for embedded_data
AddrTapTree(embedded_data) ==
    Finalize(AddLeaf(0, AddrScript(embedded_data)), XOnly(FromWif(INTERNAL_PUBKEY).pubkey))

create_taproot_address(embedded_data) ==
    IF FromWif(BOB_PUBKEY).ok
    THEN Ok(P2trAddress(AddrTapTree(embedded_data).output_key))
    ELSE Err("PrivateKeyErr")

\* the tap tree reveal_tx builds for embedded_data
RevealTapTree(embedded_data) ==
    Finalize(AddLeaf(0, RevealScript(embedded_data)), XOnly(FromWif(INTERNAL_PUBKEY).pubkey))

----------------------------------------------------------------------------
(* extract_push_data *)

\* LeafVersion::from_consensus
LeafVersionFromConsensus(version) ==
    IF version = TAPSCRIPT THEN [ok |-> TRUE, ver |-> version]
    ELSE IF version = ANNEX_PREFIX \/ version % 2 = 1
         THEN [ok |-> FALSE, ver |-> version]
         ELSE [ok |-> TRUE, ver |-> version]

TemplateEntry(expect_push_data, max_push_datas, opcode) ==
    [expect_push_data |-> expect_push_data, max_push_datas |-> max_push_datas,
     opcode |-> opcode, extracted_data |-> <<>>]

\* the template array of extract_push_data; OP_FALSE is OP_0
template ==
    <<TemplateEntry(FALSE, 0, OP_0),
      TemplateEntry(FALSE, 0, OP_IF),
      TemplateEntry(TRUE, TPL_MAX_ENVELOPE, 0),
      TemplateEntry(FALSE, 0, OP_ENDIF),
      TemplateEntry(TRUE, TPL_MAX_KEY, 0),
      TemplateEntry(FALSE, 0, OP_CHECKSIG)>>

\* NodeInfo::new_leaf_with_ver: a tree that is one leaf holding the script
NewLeafWithVer(script, ver) ==
    [leaves |-> <<[script |-> script, ver |-> ver]>>, has_hidden_nodes |-> FALSE]

\* TapTree::try_from(node_info): refused only for a tree with hidden nodes
TapTreeTryFrom(node_info) ==
    [ok |-> ~node_info.has_hidden_nodes, leaves |-> node_info.leaves]

\* Script::first_opcode: the first byte of the script, if any
FirstOpcode(script) == IF Len(script) = 0 THEN None ELSE Some(script[1])

\* the while loop over TapTree::script_leaves, which yields the leaves of the
\* tree (here the one leaf, the whole script), not the opcodes of the script
RECURSIVE TemplateLoop(_, _)
TemplateLoop(leaves, template_offset) ==
    IF leaves = <<>> THEN Some(template[3].extracted_data)
    ELSE IF template_offset >= Len(template) THEN None
    ELSE LET tpl_entry == template[template_offset + 1]
             first_opcode == FirstOpcode(Head(leaves).script)
         IN  IF first_opcode.kind = "None"
             THEN Panic("extract_push_data: non existing first opcode")
             ELSE IF ~tpl_entry.expect_push_data /\ first_opcode.val # tpl_entry.opcode
             THEN None
             ELSE TemplateLoop(Tail(leaves), template_offset + 1)

extract_push_data(version, pk_script) ==
    LET ver == LeafVersionFromConsensus(version)
    IN  IF ~ver.ok THEN Panic("extract_push_data: failed to get version")
        ELSE LET tap_tree == TapTreeTryFrom(NewLeafWithVer(pk_script, ver.ver))
             IN  IF tap_tree.ok THEN TemplateLoop(tap_tree.leaves, 0)
                 ELSE Panic("extract_push_data: failed to get tap tree")

\* slice.starts_with(prefix)
StartsWith(s, prefix) ==
    Len(s) >= Len(prefix) /\ SubSeq(s, 1, Len(prefix)) = prefix

\* the bytes after the protocol id
SkipProtocolId(push_data) == SubSeq(push_data, Len(PROTOCOL_ID) + 1, Len(push_data))

----------------------------------------------------------------------------
(* reveal_tx, after the commit transaction was fetched *)

\* the loop looking for the funding output, from index i (0-based) on
RECURSIVE FindFunding(_, _)
FindFundingLast(outputs, i) ==
    IF i >= Len(outputs) THEN None
    ELSE LET rest == FindFunding(outputs, i + 1)
         IN  IF rest.kind = "Some" THEN rest
             ELSE IF outputs[i + 1].value = FUNDING_VALUE THEN Some(i) ELSE None

FindFunding(outputs, i) ==
    IF i >= Len(outputs) THEN None
    ELSE IF outputs[i + 1].value = FUNDING_VALUE THEN Some(i)
    ELSE FindFunding(outputs, i + 1)

\* SighashCache::taproot_signature_hash with Prevouts::All, no annex, no leaf
\* hash and TapSighashType::All: refused when the number of prevouts is not the
\* number of inputs; the input index is hashed as given (it is looked up in
\* the inputs only under ANYONECANPAY)
TaprootSignatureHash(tx, input_index, prevouts) ==
    IF Len(prevouts) # Len(tx.input) THEN Err("PrevoutsSize")
    ELSE Ok([input_index |-> input_index, prevouts |-> prevouts,
             spends |-> [i \in 1..Len(tx.input) |-> tx.input[i].previous_output],
             outputs |-> tx.output, leaf_hash |-> None, annex |-> None,
             sighash_type |-> "All"])

\* secp.sign_schnorr(&sighash.into(), &key_pair) with the key pair of BOB
SignSchnorr(msg) == [kind |-> "signature", signs |-> msg, key |-> XOnly(BOB_PUBKEY)]

\* the output of the reveal transaction
RevealOutputToSpender(output_key) ==
    [value |-> REVEAL_VALUE,
     script_pubkey |-> pay_to_taproot_script(TapTweak(XOnly(BOB_PUBKEY), None))]

RevealOutput(output_key) ==
    [value |-> REVEAL_VALUE, script_pubkey |-> pay_to_taproot_script(output_key)]

\* the outpoint the reveal transaction spends
FundingOutPoint(raw_commit, commit_idx) == [txid |-> raw_commit.txid, vout |-> commit_idx]

\* reveal_tx from the key parsing to the assembled witness: the transaction
\* handed to send_raw_transaction and the signature hash request, or the
\* error or panic that ends reveal_tx before it
BuildReveal(embedded_data, raw_commit, commit_idx) ==
    IF ~FromWif(BOB_PUBKEY).ok THEN Err("PrivateKeyErr")
    ELSE
    LET pk_script == RevealScript(embedded_data)
        tap_tree == RevealTapTree(embedded_data)
        control_block == ControlBlock(tap_tree, pk_script, TAPSCRIPT)
        unsigned ==
            [version |-> TX_VERSION, lock_time |-> 0,
             input |-> <<[previous_output |-> FundingOutPoint(raw_commit, commit_idx),
                          script_sig |-> pk_script,
                          witness |-> <<>>]>>,
             output |-> <<RevealOutput(tap_tree.output_key)>>]
        hash == TaprootSignatureHash(unsigned, commit_idx,
                                     <<raw_commit.output[commit_idx + 1]>>)
    IN  IF control_block.kind = "None" THEN Err("ControlBlockErr")
        ELSE IF hash.kind = "Err" THEN Panic("reveal_tx: taproot_signature_hash")
        ELSE Ok([sighash |-> hash.val,
                 tx |-> [unsigned EXCEPT !.input[1].witness =
                            <<SignSchnorr(hash.val), BOB_PUBKEY, control_block.val>>]])

----------------------------------------------------------------------------
(* read_transaction and read, after the node answered *)

\* read_transaction from the fetched transaction on
ReadTransactionBody(tx) ==
    IF Len(tx.input[1].witness) > 1
    THEN LET push_data == extract_push_data(READ_LEAF_VERSION, tx.input[1].witness[2])
         IN  IF push_data.kind = "panic" THEN push_data
             ELSE IF push_data.kind = "None" THEN Err("InvalidTxHash")
             ELSE IF StartsWith(push_data.val, PROTOCOL_ID)
             THEN Ok(SkipProtocolId(push_data.val))
             ELSE Err("InvalidTxHash")
    ELSE Err("InvalidTxHash")

\* the for loop of read over block.txdata from position i (1-based) on, data
\* being what was pushed so far
RECURSIVE ReadScan(_, _, _)
ReadScan(txdata, i, data) ==
    IF i > Len(txdata) THEN Ok(data)
    ELSE LET witness == txdata[i].input[1].witness
         IN  IF Len(witness) < 2 THEN ReadScan(txdata, i + 1, data)
             ELSE LET push_data == extract_push_data(READ_LEAF_VERSION, witness[2])
                  IN  IF push_data.kind = "panic" THEN push_data
                      ELSE IF push_data.kind = "Some"
                              /\ StartsWith(push_data.val, PROTOCOL_ID)
                      THEN ReadScan(txdata, i + 1,
                                    Append(data, SkipProtocolId(push_data.val)))
                      ELSE ReadScan(txdata, i + 1, data)

----------------------------------------------------------------------------
(* Inputs and answers of the node *)

PayloadBytes == {0, 98}

ShortSeqs(n) == UNION {[1..k -> PayloadBytes] : k \in 0..n}

Fill(n) == [i \in 1..n |-> 98]

\* the payloads written: the short ones, and the two around the size at which
\* the tagged payload no longer fits one push
ShortPayloads == ShortSeqs(MaxLen)

LongPayloads ==
    {Fill(ADDR_CHUNK_SIZE - Len(PROTOCOL_ID)),
     Fill(ADDR_CHUNK_SIZE - Len(PROTOCOL_ID) + 1)}

Payloads == ShortPayloads \cup LongPayloads

EmbeddedDatas == {PROTOCOL_ID \o p : p \in Payloads}

\* the calls of chunk_slice: short slices with small chunk sizes, and the
\* tagged payloads (and the short slices) with the chunk size of the scripts
ChunkCalls ==
    (ShortSeqs(MaxSlice) \X (1..MaxChunk))
        \cup ((ShortSeqs(MaxSlice) \cup EmbeddedDatas) \X {ADDR_CHUNK_SIZE})

TxIds == 1..MaxTxId

Heights == 0..MaxHeight

NoTx == [version |-> 0, lock_time |-> 0, input |-> <<>>, output |-> <<>>]

\* the outputs a fetched commit transaction may have: each worth the funding
\* amount or one unit less, the former paying to the address
CommitOutput(value, addr) ==
    [value |-> value,
     script_pubkey |-> IF value = FUNDING_VALUE
                       THEN pay_to_taproot_script(addr.program)
                       ELSE [op |-> OP_0, push |-> <<>>]]

CommitTxs(txid, addr) ==
    {[txid |-> txid, output |-> [i \in 1..Len(vs) |-> CommitOutput(vs[i], addr)]] :
        vs \in UNION {[1..k -> {FUNDING_VALUE, FUNDING_VALUE - 1}] : k \in 0..MaxOutputs}}

\* a transaction of the chain with one input carrying the given witness
ChainTx(witness) ==
    [version |-> TX_VERSION, lock_time |-> 0,
     input |-> <<[previous_output |-> [txid |-> 0, vout |-> 0],
                  script_sig |-> <<>>, witness |-> witness]>>,
     output |-> <<>>]

SomeSignature == [i \in 1..64 |-> 48]

\* the serialized control block of a script-path spend: leaf version and the
\* internal key
SomeControlBlock == <<TAPSCRIPT>> \o XOnly(INTERNAL_PUBKEY)

\* a script-path spend revealing the embedding script of p: signature, script,
\* control block
TaggedTx(p) == ChainTx(<<SomeSignature, AddrScript(PROTOCOL_ID \o p), SomeControlBlock>>)

\* the same for embedded bytes that do not start with the protocol id
UntaggedTx == ChainTx(<<SomeSignature, AddrScript(<<1, 2, 3, 4, 5>>), SomeControlBlock>>)

\* the reveal transaction write broadcasts for p, its funding output at idx
RelayerTx(p, idx) ==
    BuildReveal(PROTOCOL_ID \o p,
                [txid |-> 1,
                 output |-> [i \in 1..(idx + 1) |->
                    CommitOutput(IF i = idx + 1 THEN FUNDING_VALUE ELSE FUNDING_VALUE - 1,
                                 create_taproot_address(PROTOCOL_ID \o p).val)]],
                idx).val.tx

\* transactions the node may hold that are not the relayer's
ForeignTxs ==
    {ChainTx(<<>>),                              \* no witness
     ChainTx(<<[i \in 1..32 |-> 0]>>),           \* a coinbase
     ChainTx(<<SomeSignature, BOB_PUBKEY>>),     \* a key spend of a v0 output
     ChainTx(<<SomeSignature, <<>>, <<OP_IF>>>>),\* an empty second element
     ChainTx(<<SomeSignature, <<OP_0>>, SomeControlBlock>>),
     UntaggedTx,
     TaggedTx(<<98>>)}

BlockTxs == ForeignTxs \cup {RelayerTx(<<98>>, 0)}

Blocks == UNION {[1..k -> BlockTxs] : k \in 0..MaxBlockTxs}

\* scripts handed to extract_push_data directly: every sequence of at most
\* MaxTokens tokens, and the envelope with 0..MaxPushes pushes between several
\* heads and tails
ProbeTokens == {<<OP_0>>, <<OP_IF>>, <<OP_ENDIF>>, <<OP_CHECKSIG>>, PushSlice(<<98>>)}

RECURSIVE Flatten(_)
Flatten(ss) == IF ss = <<>> THEN <<>> ELSE Head(ss) \o Flatten(Tail(ss))

ProbeHeads == {<<OP_0, OP_IF>>, <<OP_IF, OP_0>>, <<OP_IF>>, <<OP_0>>}

ProbeTails ==
    {<<OP_ENDIF>> \o PushSlice(BOB_PUBKEY) \o <<OP_CHECKSIG>>,
     <<OP_ENDIF>> \o PushSlice(BOB_PUBKEY) \o <<OP_CHECKSIG, OP_CHECKSIG>>,
     <<OP_ENDIF>> \o PushSlice(BOB_PUBKEY) \o PushSlice(BOB_PUBKEY) \o <<OP_CHECKSIG>>,
     <<OP_ENDIF>> \o PushSlice(BOB_PUBKEY),
     <<OP_ENDIF, OP_CHECKSIG>>,
     PushSlice(BOB_PUBKEY) \o <<OP_ENDIF, OP_CHECKSIG>>,
     <<OP_CHECKSIG>>}

ProbeScripts ==
    {Flatten(ts) : ts \in UNION {[1..k -> ProbeTokens] : k \in 0..MaxTokens}}
        \cup {h \o Flatten([i \in 1..k |-> PushSlice(<<98, i>>)]) \o t :
                h \in ProbeHeads, k \in 0..MaxPushes, t \in ProbeTails}
        \cup {AddrScript(d) : d \in EmbeddedDatas}

ProbeVersions == {READ_LEAF_VERSION, TAPSCRIPT, ANNEX_PREFIX, 1, 2}

----------------------------------------------------------------------------
(* The state machine *)

Init ==
    /\ pc = "idle"
    /\ op = "none"
    /\ arg = <<>>
    /\ dataWithId = <<>>
    /\ address = P2trAddress(TapTweak(<<>>, TapLeafHash(<<>>, 0)))
    /\ commitHash = 0
    /\ rawCommit = [txid |-> 0, output |-> <<>>]
    /\ revealTx = NoTx
    /\ sighash = None
    /\ calls = <<>>
    /\ ret = Pending
    /\ block = <<>>
    /\ ledger = [id |-> 0, tx |-> NoTx]
    /\ written = <<>>

\* the record of one RPC of the node: what was asked, whether it succeeded and
\* what it returned
Rpc(name, req, ok, val) == [rpc |-> name, req |-> req, ok |-> ok, val |-> val]

\* write(data) up to the send_to_address RPC of commit_tx
WriteCall(data) ==
    /\ pc = "idle"
    /\ op' = "write"
    /\ arg' = data
    /\ dataWithId' = PROTOCOL_ID \o data
    /\ LET addr == create_taproot_address(dataWithId')
       IN  IF addr.kind = "Err"
           THEN pc' = "returned" /\ ret' = addr /\ address' = address
           ELSE /\ address' = addr.val
                /\ IF AddressType(addr.val) = "P2tr"
                   THEN pc' = "send_to_address" /\ ret' = Pending
                   ELSE pc' = "returned" /\ ret' = Err("InvalidAddress")
    /\ UNCHANGED <<commitHash, rawCommit, revealTx, sighash, calls, block,
                   ledger, written>>

\* send_to_address fails: commit_tx and write return SendToAddressError
SendToAddressFails ==
    /\ pc = "send_to_address"
    /\ calls' = Append(calls, Rpc("send_to_address",
                    [address |-> address, amount |-> COMMIT_AMOUNT], FALSE, 0))
    /\ ret' = Err("SendToAddressError")
    /\ pc' = "returned"
    /\ UNCHANGED <<op, arg, dataWithId, address, commitHash, rawCommit, revealTx,
                   sighash, block, ledger, written>>

\* send_to_address returns the id of the commit transaction; reveal_tx starts
\* and fetches it
SendToAddressOk(txid) ==
    /\ pc = "send_to_address"
    /\ calls' = Append(calls, Rpc("send_to_address",
                    [address |-> address, amount |-> COMMIT_AMOUNT], TRUE, txid))
    /\ commitHash' = txid
    /\ pc' = "get_raw_transaction"
    /\ UNCHANGED <<op, arg, dataWithId, address, rawCommit, revealTx, sighash,
                   ret, block, ledger, written>>

\* get_raw_transaction(commit_hash) fails in reveal_tx: the unwrap panics
GetCommitFails ==
    /\ pc = "get_raw_transaction"
    /\ calls' = Append(calls, Rpc("get_raw_transaction", commitHash, FALSE, 0))
    /\ ret' = Panic("reveal_tx: get_raw_transaction")
    /\ pc' = "panicked"
    /\ UNCHANGED <<op, arg, dataWithId, address, commitHash, rawCommit, revealTx,
                   sighash, block, ledger, written>>

\* get_raw_transaction(commit_hash) returns tx: reveal_tx looks for the funding
\* output, builds and signs the reveal transaction and hands it to
\* send_raw_transaction, or ends before that
GetCommitOk(tx) ==
    /\ pc = "get_raw_transaction"
    /\ calls' = Append(calls, Rpc("get_raw_transaction", commitHash, TRUE, tx.txid))
    /\ rawCommit' = tx
    /\ LET commit_idx == FindFunding(tx.output, 0)
       IN  IF commit_idx.kind = "None"
           THEN /\ ret' = Err("TransactionErr")
                /\ pc' = "returned"
                /\ UNCHANGED <<revealTx, sighash>>
           ELSE LET built == BuildReveal(dataWithId, tx, commit_idx.val)
                IN  IF built.kind = "Ok"
                    THEN /\ revealTx' = built.val.tx
                         /\ sighash' = built.val.sighash
                         /\ ret' = Pending
                         /\ pc' = "send_raw_transaction"
                    ELSE /\ ret' = built
                         /\ pc' = IF built.kind = "panic" THEN "panicked" ELSE "returned"
                         /\ UNCHANGED <<revealTx, sighash>>
    /\ UNCHANGED <<op, arg, dataWithId, address, commitHash, block, ledger, written>>

\* send_raw_transaction fails: reveal_tx and write return RevealErr
SendRawFails ==
    /\ pc = "send_raw_transaction"
    /\ calls' = Append(calls, Rpc("send_raw_transaction", <<>>, FALSE, 0))
    /\ ret' = Err("RevealErr")
    /\ pc' = "returned"
    /\ UNCHANGED <<op, arg, dataWithId, address, commitHash, rawCommit, revealTx,
                   sighash, block, ledger, written>>

\* send_raw_transaction returns the id of the reveal transaction, which the
\* node now holds: write returns it
SendRawOk(txid) ==
    /\ pc = "send_raw_transaction"
    /\ txid # commitHash
    /\ calls' = Append(calls, Rpc("send_raw_transaction", <<>>, TRUE, txid))
    /\ ret' = Ok(txid)
    /\ pc' = "returned"
    /\ ledger' = [id |-> txid, tx |-> revealTx]
    /\ written' = arg
    /\ UNCHANGED <<op, arg, dataWithId, address, commitHash, rawCommit, revealTx,
                   sighash, block>>

\* read_transaction(hash) is called: at the start, or with the id a write
\* returned
ReadTransactionCall(hash) ==
    /\ \/ pc = "idle"
       \/ pc = "returned" /\ op = "write" /\ ret.kind = "Ok" /\ hash = ret.val
    /\ op' = "read_transaction"
    /\ arg' = hash
    /\ calls' = <<>>
    /\ ret' = Pending
    /\ pc' = "rt_get_raw_transaction"
    /\ UNCHANGED <<dataWithId, address, commitHash, rawCommit, revealTx, sighash,
                   block, ledger, written>>

\* get_raw_transaction(hash) fails in read_transaction
GetTxFails ==
    /\ pc = "rt_get_raw_transaction"
    /\ calls' = Append(calls, Rpc("get_raw_transaction", arg, FALSE, 0))
    /\ ret' = Err("InvalidTxHash")
    /\ pc' = "returned"
    /\ UNCHANGED <<op, arg, dataWithId, address, commitHash, rawCommit, revealTx,
                   sighash, block, ledger, written>>

\* get_raw_transaction(hash) returns the transaction the node holds under
\* hash: the reveal transaction it accepted, or one that is not the relayer's
GetTxOk(tx) ==
    /\ pc = "rt_get_raw_transaction"
    /\ IF arg = ledger.id THEN tx = ledger.tx ELSE tx \in ForeignTxs
    /\ calls' = Append(calls, Rpc("get_raw_transaction", arg, TRUE, arg))
    /\ block' = <<tx>>
    /\ ret' = ReadTransactionBody(tx)
    /\ pc' = IF ret'.kind = "panic" THEN "panicked" ELSE "returned"
    /\ UNCHANGED <<op, arg, dataWithId, address, commitHash, rawCommit, revealTx,
                   sighash, ledger, written>>

\* read(height) is called
ReadCall(height) ==
    /\ pc = "idle"
    /\ op' = "read"
    /\ arg' = height
    /\ pc' = "get_block_hash"
    /\ UNCHANGED <<dataWithId, address, commitHash, rawCommit, revealTx, sighash,
                   calls, ret, block, ledger, written>>

\* get_block_hash fails: read panics
GetBlockHashFails ==
    /\ pc = "get_block_hash"
    /\ calls' = Append(calls, Rpc("get_block_hash", arg, FALSE, 0))
    /\ ret' = Panic("read: failed to get block hash")
    /\ pc' = "panicked"
    /\ UNCHANGED <<op, arg, dataWithId, address, commitHash, rawCommit, revealTx,
                   sighash, block, ledger, written>>

GetBlockHashOk ==
    /\ pc = "get_block_hash"
    /\ calls' = Append(calls, Rpc("get_block_hash", arg, TRUE, arg))
    /\ pc' = "get_block"
    /\ UNCHANGED <<op, arg, dataWithId, address, commitHash, rawCommit, revealTx,
                   sighash, ret, block, ledger, written>>

\* get_block fails: read panics
GetBlockFails ==
    /\ pc = "get_block"
    /\ calls' = Append(calls, Rpc("get_block", arg, FALSE, 0))
    /\ ret' = Panic("read: failed to get block")
    /\ pc' = "panicked"
    /\ UNCHANGED <<op, arg, dataWithId, address, commitHash, rawCommit, revealTx,
                   sighash, block, ledger, written>>

\* get_block returns the block: read scans it and returns
GetBlockOk(txdata) ==
    /\ pc = "get_block"
    /\ calls' = Append(calls, Rpc("get_block", arg, TRUE, arg))
    /\ block' = txdata
    /\ ret' = ReadScan(txdata, 1, <<>>)
    /\ pc' = IF ret'.kind = "panic" THEN "panicked" ELSE "returned"
    /\ UNCHANGED <<op, arg, dataWithId, address, commitHash, rawCommit, revealTx,
                   sighash, ledger, written>>

\* the public functions without RPCs, called directly
ChunkSliceCall(slice, chunk_size) ==
    /\ pc = "idle"
    /\ op' = "chunk_slice"
    /\ arg' = [slice |-> slice, chunk_size |-> chunk_size]
    /\ ret' = Ok(chunk_slice(slice, chunk_size))
    /\ pc' = "returned"
    /\ UNCHANGED <<dataWithId, address, commitHash, rawCommit, revealTx, sighash,
                   calls, block, ledger, written>>

CreateTaprootAddressCall(embedded_data) ==
    /\ pc = "idle"
    /\ op' = "create_taproot_address"
    /\ arg' = embedded_data
    /\ ret' = create_taproot_address(embedded_data)
    /\ pc' = "returned"
    /\ UNCHANGED <<dataWithId, address, commitHash, rawCommit, revealTx, sighash,
                   calls, block, ledger, written>>

ExtractPushDataCall(version, pk_script) ==
    /\ pc = "idle"
    /\ op' = "extract_push_data"
    /\ arg' = [version |-> version, pk_script |-> pk_script]
    /\ ret' = extract_push_data(version, pk_script)
    /\ pc' = IF ret'.kind = "panic" THEN "panicked" ELSE "returned"
    /\ UNCHANGED <<dataWithId, address, commitHash, rawCommit, revealTx, sighash,
                   calls, block, ledger, written>>

Next ==
    \/ \E data \in ShortPayloads : WriteCall(data)
    \/ \E data \in LongPayloads : WriteCall(data)
    \/ SendToAddressFails
    \/ \E txid \in TxIds : SendToAddressOk(txid)
    \/ GetCommitFails
    \/ \E tx \in CommitTxs(commitHash, address) : GetCommitOk(tx)
    \/ SendRawFails
    \/ \E txid \in TxIds : SendRawOk(txid)
    \/ \E hash \in TxIds : ReadTransactionCall(hash)
    \/ GetTxFails
    \/ \E tx \in ForeignTxs \cup {ledger.tx} : GetTxOk(tx)
    \/ \E height \in Heights : ReadCall(height)
    \/ GetBlockHashFails
    \/ GetBlockHashOk
    \/ GetBlockFails
    \/ \E txdata \in Blocks : GetBlockOk(txdata)
    \/ \E c \in ChunkCalls : ChunkSliceCall(c[1], c[2])
    \/ \E embedded_data \in EmbeddedDatas \cup {<<>>} : CreateTaprootAddressCall(embedded_data)
    \/ \E version \in ProbeVersions, pk_script \in ProbeScripts :
          ExtractPushDataCall(version, pk_script)

Spec == Init /\ [][Next]_vars

----------------------------------------------------------------------------
(* What the claims are stated with: the reading of a script as tokens and   *)
(* the embedding template, written independently of extract_push_data       *)

OpToken(b) == [kind |-> "op", byte |-> b, data |-> <<>>]
PushToken(d) == [kind |-> "push", byte |-> 0, data |-> d]
BadToken == [kind |-> "bad", byte |-> 0, data |-> <<>>]

\* the tokens of a script from position i (1-based) on; a push that runs past
\* the end of the script is one bad token
RECURSIVE TokensFrom(_, _)
TokensFrom(s, i) ==
    IF i > Len(s) THEN <<>>
    ELSE LET b == s[i]
             hdr == IF b = OP_PUSHDATA1 THEN 2 ELSE IF b = OP_PUSHDATA2 THEN 3 ELSE 1
             n == IF b = OP_PUSHDATA1 THEN (IF i + 1 <= Len(s) THEN s[i + 1] ELSE 0)
                  ELSE IF b = OP_PUSHDATA2
                       THEN (IF i + 2 <= Len(s) THEN s[i + 1] + 256 * s[i + 2] ELSE 0)
                       ELSE b
         IN  IF b >= 1 /\ b <= OP_PUSHDATA2
             THEN IF i + hdr - 1 + n <= Len(s)
                  THEN <<PushToken(SubSeq(s, i + hdr, i + hdr - 1 + n))>>
                           \o TokensFrom(s, i + hdr + n)
                  ELSE <<BadToken>>
             ELSE <<OpToken(b)>> \o TokensFrom(s, i + 1)

Tokens(s) == TokensFrom(s, 1)

\* OP_FALSE OP_IF <1 to 10 pushes> OP_ENDIF <push> OP_CHECKSIG and nothing else
MatchesTemplate(ts) ==
    LET n == Len(ts)
    IN  /\ n >= 6
        /\ n <= 15
        /\ ts[1] = OpToken(OP_0)
        /\ ts[2] = OpToken(OP_IF)
        /\ \A i \in 3..(n - 3) : ts[i].kind = "push"
        /\ ts[n - 2] = OpToken(OP_ENDIF)
        /\ ts[n - 1].kind = "push"
        /\ ts[n] = OpToken(OP_CHECKSIG)

\* the pushes between OP_IF and OP_ENDIF of a script that matches
EnvelopePushes(ts) == [i \in 1..(Len(ts) - 5) |-> ts[i + 2].data]

CeilDiv(a, b) == (a + b - 1) \div b

Finished == pc \in {"returned", "panicked"}

\* the reveal transaction was built by the running write
RevealBuilt == op = "write" /\ Len(revealTx.input) > 0

\* the address the running write asked the node to fund
Funded == calls[1].req.address

----------------------------------------------------------------------------
(* C1 *)

\* C1: round trip.  When write(P) returned Ok(R) and read_transaction(R) got
\* from the node the transaction that write broadcast, read_transaction
\* returns Ok(P).
C1_RoundTrip ==
    (/\ op = "read_transaction"
     /\ Finished
     /\ ledger.id # 0
     /\ arg = ledger.id
     /\ calls[1].ok)
        => (ret.kind = "Ok" /\ ret.val = written)

----------------------------------------------------------------------------
(* C2 *)

\* C2: template strictness.  extract_push_data, called with the leaf version
\* the relayer passes, returns a match for the scripts whose tokens are exactly
\* OP_FALSE OP_IF <1..10 pushes> OP_ENDIF <push> OP_CHECKSIG, and None for every
\* other script.
C2_TemplateStrictness ==
    (/\ op = "extract_push_data"
     /\ pc = "returned"
     /\ arg.version = READ_LEAF_VERSION)
        => IF MatchesTemplate(Tokens(arg.pk_script))
           THEN ret.kind = "Some"
           ELSE ret.kind = "None"

----------------------------------------------------------------------------
(* C3 *)

\* C3: chunking.  chunk_slice(D, c) with c >= 1 returns ceil(len(D)/c) chunks,
\* each non-empty and at most c long, whose concatenation is D; and the
\* embedding script create_taproot_address builds for D holds, between OP_IF
\* and OP_ENDIF, ceil(len(D)/520) pushes whose concatenation is D: one push
\* for the tag alone and for the tag with 516 bytes, two with 517 bytes.
C3_Chunking ==
    /\ (op = "chunk_slice" /\ pc = "returned") =>
          LET chunks == ret.val
          IN  /\ Len(chunks) = CeilDiv(Len(arg.slice), arg.chunk_size)
              /\ \A i \in 1..Len(chunks) :
                    Len(chunks[i]) >= 1 /\ Len(chunks[i]) <= arg.chunk_size
              /\ Flatten(chunks) = arg.slice
    /\ (op = "create_taproot_address" /\ pc = "returned" /\ Len(arg) > 0) =>
          LET ts == Tokens(ret.val.program.root.leaf_script)
          IN  /\ MatchesTemplate(ts)
              /\ Len(EnvelopePushes(ts)) = CeilDiv(Len(arg), 520)
              /\ Flatten(EnvelopePushes(ts)) = arg
              /\ Len(arg) = 4 => Len(EnvelopePushes(ts)) = 1
              /\ Len(arg) = 4 + 516 => Len(EnvelopePushes(ts)) = 1
              /\ Len(arg) = 4 + 517 => Len(EnvelopePushes(ts)) = 2

\* a slice one byte longer than the chunk size was cut in a full chunk and a
\* chunk of one byte
C3_Witness ==
    /\ op = "chunk_slice"
    /\ pc = "returned"
    /\ arg.chunk_size = 520
    /\ Len(arg.slice) = 521
    /\ Len(ret.val) = 2
    /\ Len(ret.val[2]) = 1

----------------------------------------------------------------------------
(* C4 *)

CallsOf(name) == {i \in 1..Len(calls) : calls[i].rpc = name}

\* the error write returns when the RPC fails
StageError(name) ==
    IF name = "send_to_address" THEN "SendToAddressError"
    ELSE IF name = "send_raw_transaction" THEN "RevealErr"
    ELSE "TransactionErr"

\* C4: write sequencing.  The funding call and the reveal broadcast are each
\* made at most once; the broadcast comes only after the funding call succeeded
\* and the funding output was found in the fetched commit transaction; a failed
\* RPC is the last one and write returns that stage's error; write returns Ok
\* only with the id the broadcast returned.
C4_WriteSequencing ==
    op = "write" =>
        /\ Cardinality(CallsOf("send_to_address")) <= 1
        /\ Cardinality(CallsOf("send_raw_transaction")) <= 1
        /\ \A i \in CallsOf("send_raw_transaction") :
              /\ i = 3
              /\ calls[1].rpc = "send_to_address" /\ calls[1].ok
              /\ calls[2].rpc = "get_raw_transaction" /\ calls[2].ok
              /\ \E j \in 1..Len(rawCommit.output) : rawCommit.output[j].value = 100000
        /\ \A i \in 1..Len(calls) :
              ~calls[i].ok =>
                  /\ i = Len(calls)
                  /\ pc = "returned"
                  /\ ret.kind = "Err"
                  /\ ret.val = StageError(calls[i].rpc)
        /\ (pc = "returned" /\ ret.kind = "Ok") =>
              /\ calls[Len(calls)].rpc = "send_raw_transaction"
              /\ calls[Len(calls)].ok
              /\ calls[Len(calls)].val = ret.val

----------------------------------------------------------------------------
(* C5 *)

\* C5: no aborts.  write, read_transaction and read, whatever the node answers
\* and whatever the witnesses hold, and extract_push_data called as the relayer
\* calls it, whatever the script, end by returning a value.
C5_NoAborts ==
    ~(/\ pc = "panicked"
      /\ \/ op \in {"write", "read_transaction", "read"}
         \/ op = "extract_push_data" /\ arg.version = READ_LEAF_VERSION)

----------------------------------------------------------------------------
(* C6 *)

\* whether the transaction carries, as second element of the witness of input
\* 0, a script matching the template whose pushes start with the protocol id
Carries(tx) ==
    /\ Len(tx.input[1].witness) >= 2
    /\ tx.input[1].witness[2] \in Seq(0..255)
    /\ MatchesTemplate(Tokens(tx.input[1].witness[2]))
    /\ StartsWith(Flatten(EnvelopePushes(Tokens(tx.input[1].witness[2]))), PROTOCOL_ID)

Carried(tx) == SkipProtocolId(Flatten(EnvelopePushes(Tokens(tx.input[1].witness[2]))))

RECURSIVE Expected(_)
Expected(txdata) ==
    IF txdata = <<>> THEN <<>>
    ELSE (IF Carries(Head(txdata)) THEN <<Carried(Head(txdata))>> ELSE <<>>)
             \o Expected(Tail(txdata))

\* C6: block scan.  When read returns, it returns, in block order, the tagged
\* payload of each transaction carrying one, and nothing else.
C6_BlockScan ==
    (op = "read" /\ pc = "returned") => (ret.kind = "Ok" /\ ret.val = Expected(block))

----------------------------------------------------------------------------
(* C7 *)

\* C7: commitment consistency.  Once reveal_tx built the reveal transaction,
\* the script it reveals is the script the funded address commits to, the key
\* it derived is the key of the funded address, and the control block it
\* attached proves that script against that address.
C7_CommitmentConsistency ==
    RevealBuilt =>
        LET inp == revealTx.input[1]
            cb == inp.witness[3]
        IN  /\ inp.script_sig = Funded.program.root.leaf_script
            /\ revealTx.output[1].script_pubkey.push = Funded.program
            /\ TapTweak(cb.internal_key, TapLeafHash(inp.script_sig, cb.leaf_version))
                   = Funded.program

\* a write of a payload spread over two pushes returned Ok
C7_Witness ==
    /\ RevealBuilt
    /\ pc = "returned"
    /\ ret.kind = "Ok"
    /\ Len(dataWithId) > 520
    /\ revealTx.input[1].script_sig = Funded.program.root.leaf_script

----------------------------------------------------------------------------
(* C8 *)

\* the spender's key alone, committing to no script
SpenderKeyOnly == TapTweak(XOnly(BOB_PUBKEY), None)

----------------------------------------------------------------------------
(* C9 *)

FundingMatches == {i \in 1..Len(rawCommit.output) : rawCommit.output[i].value = 100000}

\* C9: funding output selection.  commit_tx sends 100000; once the commit
\* transaction is fetched, reveal_tx either finds no output worth exactly
\* 100000, returns an error and broadcasts nothing, or hands to the node a
\* transaction spending (commit txid, least index of such an output).
C9_FundingSelection ==
    (op = "write" /\ Len(calls) >= 2 /\ calls[2].ok) =>
        /\ calls[1].req.amount = 100000
        /\ IF FundingMatches = {}
           THEN /\ pc = "returned"
                /\ ret.kind = "Err"
                /\ ret.val = "TransactionErr"
                /\ Len(calls) = 2
                /\ revealTx = NoTx
           ELSE /\ pc = "send_raw_transaction" \/ Len(calls) = 3
                /\ Len(revealTx.input) = 1
                /\ revealTx.input[1].previous_output.txid = rawCommit.txid
                /\ revealTx.input[1].previous_output.vout + 1 \in FundingMatches
                /\ \A j \in FundingMatches :
                      revealTx.input[1].previous_output.vout + 1 <= j

\* the node accepted a reveal spending output 1 of a commit transaction whose
\* outputs 1 and 2 are both worth 100000
C9_Witness ==
    /\ op = "write"
    /\ pc = "returned"
    /\ ret.kind = "Ok"
    /\ FundingMatches = {2, 3}
    /\ ledger.tx.input[1].previous_output = [txid |-> rawCommit.txid, vout |-> 1]

----------------------------------------------------------------------------
(* C10 *)

\* C10: signing is independent of the position of the funding output.  The
\* signature hash is computed for the only input of the reveal transaction
\* (index 0) against its one previous output, wherever the funding output
\* stands in the commit transaction, and the witness is the signature of that
\* hash, the spender's public key and the control block.
C10_SigningIndependentOfPosition ==
    RevealBuilt =>
        LET inp == revealTx.input[1]
        IN  /\ Len(revealTx.input) = 1
            /\ sighash.input_index = 0
            /\ sighash.prevouts = <<rawCommit.output[inp.previous_output.vout + 1]>>
            /\ Len(inp.witness) = 3
            /\ inp.witness[1] = SignSchnorr(sighash)
            /\ inp.witness[2] = BOB_PUBKEY

====
